---- MODULE Spec2Model ----
(***************************************************************************)
(* Model of Script/geolocate.py: input resolution, the lookup loop of      *)
(* get_records, and the sorting and rendering done by main.                *)
(*                                                                         *)
(* Strings are sequences of one-character strings, so that regular         *)
(* expression search, string comparison and number formatting are computed *)
(* character by character.  A Python optional (a value or None) is a set   *)
(* with at most one element: {} is None and {v} is the value v.            *)
(***************************************************************************)
EXTENDS Integers, Sequences, FiniteSets, TLC

VARIABLES
    pc,            \* position of main: "compile", "input", "open", "loop", "done"
    args,          \* the parsed command line (argparse namespace)
    file,          \* the --file path as the file system presents it
    ip_list,       \* main: the sequence handed to get_records
    idx,           \* get_records: position of the for loop in ip_list
    result_dict,   \* get_records: insertion-ordered items <<key, lines>>
    unknown_ips,   \* get_records: addresses without a record
    city_calls,    \* the addresses reader.city was called with, in order
    search_calls,  \* the addresses whose record met search_pattern.search
    stdout,        \* the text of every print call, in order
    stderr,        \* the message of parser.error or of an uncaught exception
    exit_code      \* {} while running, {n} once the process has ended

vars == <<pc, args, file, ip_list, idx, result_dict, unknown_ips,
          city_calls, search_calls, stdout, stderr, exit_code>>

(***************************************************************************)
(* Bounds of the model.                                                    *)
(***************************************************************************)
MaxLen == 3        \* most IPv4-shaped matches a file holds
MaxLimit == 2      \* largest --limit value tried

None == {}
Some(v) == {v}
Val(o) == CHOOSE v \in o : TRUE

(***************************************************************************)
(* Characters and strings.                                                 *)
(***************************************************************************)
Ascii ==
    <<" ", "!", "DQUOTE", "#", "$", "%", "&", "'", "(", ")", "*", "+", ",", "-",
      ".", "/", "0", "1", "2", "3", "4", "5", "6", "7", "8", "9", ":", ";",
      "<", "=", ">", "?", "@", "A", "B", "C", "D", "E", "F", "G", "H", "I",
      "J", "K", "L", "M", "N", "O", "P", "Q", "R", "S", "T", "U", "V", "W",
      "X", "Y", "Z", "[", "BSLASH", "]", "^", "_", "BTICK", "a", "b", "c", "d", "e",
      "f", "g", "h", "i", "j", "k", "l", "m", "n", "o", "p", "q", "r", "s",
      "t", "u", "v", "w", "x", "y", "z", "{", "|", "}", "~">>

\* The characters "DQUOTE", "BSLASH" and "BTICK" stand for the double quote,
\* the backslash and the backtick, which no string of the model holds.
Chars == {Ascii[i] : i \in 1..Len(Ascii)} \cup {"\n"}

\* ord(c): the code point of a character
OrdTable ==
    [c \in Chars |->
        IF c = "\n" THEN 10
        ELSE 31 + (CHOOSE i \in 1..Len(Ascii) : Ascii[i] = c)]

Ord(c) == OrdTable[c]

\* the case folding re.IGNORECASE applies to an ASCII character
LowerTable ==
    [c \in Chars |->
        IF c # "\n" /\ Ord(c) >= 65 /\ Ord(c) <= 90 THEN Ascii[Ord(c) + 1]
        ELSE c]

Lower(c) == LowerTable[c]

\* str.__lt__: lexicographic comparison by code point
RECURSIVE StrLess(_, _)
StrLess(s, t) ==
    IF t = <<>> THEN FALSE
    ELSE IF s = <<>> THEN TRUE
    ELSE IF s[1] # t[1] THEN Ord(s[1]) < Ord(t[1])
    ELSE StrLess(Tail(s), Tail(t))

DigitChars == <<"0", "1", "2", "3", "4", "5", "6", "7", "8", "9">>

\* str(n) for an int n >= 0
RECURSIVE Digits(_)
Digits(n) ==
    IF n < 10 THEN <<DigitChars[n + 1]>>
    ELSE Digits(n \div 10) \o <<DigitChars[(n % 10) + 1]>>

\* str(n) for an int
IntStr(n) == IF n < 0 THEN <<"-">> \o Digits(0 - n) ELSE Digits(n)

\* the fill and alignment of a format spec "0>w": pad on the left with "0"
RECURSIVE PadLeft(_, _)
PadLeft(s, w) == IF Len(s) >= w THEN s ELSE PadLeft(<<"0">> \o s, w)

(***************************************************************************)
(* The geolocation database behind reader.city.  A lookup returns a        *)
(* record, or raises AddressNotFoundError (address not in the database)    *)
(* or ValueError (not a syntactically valid address).  Coordinates are     *)
(* floats with three decimals, held in thousandths of a degree.            *)
(***************************************************************************)
IP1 == <<"1", ".", "1", ".", "1", ".", "1">>
IP2 == <<"2", ".", "2", ".", "2", ".", "2">>
IP3 == <<"3", ".", "3", ".", "3", ".", "3">>
IP4 == <<"4", ".", "4", ".", "4", ".", "4">>
IP5 == <<"9", "9", "9", ".", "9", ".", "9", ".", "9">>

\* the addresses that the files of the model hold
Addresses == {IP1, IP2, IP3, IP4, IP5}

\* the values given with --ip: an address, or the empty string
IpChoices == Addresses \cup {<<>>}

Record(country, iso, state, city, lat, lon, radius) ==
    [country_name |-> country, country_iso |-> iso, subdivision_name |-> state,
     city_name |-> city, latitude |-> lat, longitude |-> lon,
     accuracy_radius |-> radius]

Found(r) == [raises |-> "", record |-> Some(r)]
Raises(e) == [raises |-> e, record |-> None]

\* reader.city(ip) on the database of the model
reader_city(ip) ==
    CASE ip = IP1 ->
           Found(Record(Some(<<"K", "e", "n", "y", "a">>), None, None, None,
                        Some(0), Some(37917), None))
      [] ip = IP2 ->
           Found(Record(Some(<<"I", "n", "d", "i", "a">>), Some(<<"I", "N">>),
                        Some(<<"H", "a", "r", "y", "a", "n", "a">>),
                        Some(<<"H", "i", "s", "a", "r">>),
                        Some(29154), Some(75722), Some(1000)))
      [] ip = IP3 ->
           Found(Record(None, None, None, Some(<<"G", "a", "y", "a">>),
                        Some(24796), None, Some(200)))
      [] ip = IP4 -> Raises("AddressNotFoundError")
      [] OTHER -> Raises("ValueError")

\* the message of an exception of any other class that leaves read_record
\* (the text itself is the library's and plays no part in any property)
OtherLookupErrors == {<<"I", "n", "v", "a", "l", "i", "d", "D", "a", "t", "a", "b", "a",
      "s", "e", "E", "r", "r", "o", "r">>}

\* the message of the exception geoip2.database.Reader(args.db) ends with
\* when the database cannot be opened
OpenErrors == {<<"N", "o", " ", "s", "u", "c", "h", " ", "f", "i", "l", "e">>}

(***************************************************************************)
(* The command line.  A search pattern is a regular expression made of     *)
(* literal characters and ".", which matches any character.                *)
(***************************************************************************)
\* line 65: choices
GroupChoices == {"ip_address", "country", "state/region", "city"}

\* line 66: default='ip_address'
default_group == "ip_address"

AttributeGroups == {"country", "state/region", "city"}

\* the values given with --search
SearchChoices ==
    {None, Some(<<"Y", "A">>), Some(<<"3", ".", ".", ".", "3">>),
     Some(<<"(">>), Some(<<"I", "N", ")">>)}

FilterChoices == {<<>>, <<IP2, IP4>>}

\* re.findall(pattern, data) of the files tried: up to MaxLen matches
MatchLists == UNION {[1..n -> Addresses] : n \in 0..MaxLen}

(***************************************************************************)
(* re.compile(args.search, re.IGNORECASE).search(s)                        *)
(***************************************************************************)
\* the characters with a meaning of their own in a pattern
Metachars ==
    {".", "^", "$", "*", "+", "?", "{", "}", "[", "]", "BSLASH", "|", "(", ")"}

\* the inline flag group (?i), accepted at the start of a pattern
InlineFlag == <<"(", "?", "i", ")">>

HasInlineFlag(p) == Len(p) >= 4 /\ SubSeq(p, 1, 4) = InlineFlag

\* the pattern behind its inline flag group
Body(p) == IF HasInlineFlag(p) THEN SubSeq(p, 5, Len(p)) ELSE p

\* The patterns covered: an optional (?i), then literal characters, the
\* wildcard "." and groups written with "(" and ")".  Repetition,
\* alternation, classes, escapes, anchors and the other (?...) groups are
\* not covered.
PatternSyntax(p) ==
    \A k \in 1..Len(Body(p)) :
        Body(p)[k] \in (Chars \ Metachars) \cup {".", "(", ")"}

\* the number of times c stands among the first k characters of b
Count(b, c, k) == Cardinality({i \in 1..k : b[i] = c})

\* every ")" closes a group opened before it and every group is closed
Balanced(b) ==
    /\ \A k \in 1..Len(b) : Count(b, ")", k) <= Count(b, "(", k)
    /\ Count(b, ")", Len(b)) = Count(b, "(", Len(b))

\* line 188: without --search nothing is compiled; on a covered pattern
\* re.compile raises re.error ('missing ), unterminated subpattern',
\* 'unbalanced parenthesis') exactly when its groups are not balanced
compile_raises(pattern) ==
    /\ pattern # None
    /\ ~Balanced(Body(Val(pattern)))

\* the characters a compiled pattern matches one after the other: its groups
\* hold no repetition and no alternation, and IGNORECASE is set already
Atoms(p) == SelectSeq(Body(p), LAMBDA c : c \notin {"(", ")"})

\* the atoms a match s[off+1 .. off+Len(a)]; "." matches all but a newline
MatchAt(a, s, off) ==
    \A k \in 1..Len(a) :
        \/ a[k] = "." /\ s[off + k] # "\n"
        \/ a[k] # "." /\ Lower(a[k]) = Lower(s[off + k])

search(p, s) ==
    LET a == Atoms(p)
    IN  \E off \in 0..(Len(s) - Len(a)) : MatchAt(a, s, off)

(***************************************************************************)
(* get_records: the strings derived from a record (lines 130-135)          *)
(***************************************************************************)
Unknown == <<"U", "n", "k", "n", "o", "w", "n">>
Null == <<"N", "u", "l", "l">>

NameOr(o) == IF o # None THEN Val(o) ELSE Unknown

city_of(record) == NameOr(record.city_name)
state_of(record) == NameOr(record.subdivision_name)
country_name_of(record) == NameOr(record.country_name)

country_iso_of(record) ==
    IF record.country_iso # None
    THEN <<" ", "(">> \o Val(record.country_iso) \o <<")">>
    ELSE <<>>

country_full_of(record) == country_name_of(record) \o country_iso_of(record)

\* add_record without the match on the address string
add_record_NoIp(search_pattern, record, ip) ==
    IF search_pattern # None
    THEN LET p == Val(search_pattern)
             match_country == search(p, country_full_of(record))
             match_state == search(p, state_of(record))
             match_city == search(p, city_of(record))
         IN  TRUE \in {match_country, match_state, match_city}
    ELSE TRUE

\* lines 137-145: add_record = any([...]), or True without a pattern
add_record(search_pattern, record, ip) ==
    IF search_pattern # None
    THEN LET p == Val(search_pattern)
             match_country == search(p, country_full_of(record))
             match_state == search(p, state_of(record))
             match_city == search(p, city_of(record))
             match_ip == search(p, ip)
         IN  TRUE \in {match_country, match_state, match_city, match_ip}
    ELSE TRUE

(***************************************************************************)
(* get_records: the detail block of ip_address mode (lines 157-173)        *)
(***************************************************************************)
\* format(x, "0>3.9f") for a float x = v / 1000
FormatCoord(v) ==
    LET a == IF v < 0 THEN 0 - v ELSE v
        sign == IF v < 0 THEN <<"-">> ELSE <<>>
        frac == PadLeft(Digits(a % 1000), 3) \o <<"0", "0", "0", "0", "0", "0">>
    IN  PadLeft(sign \o Digits(a \div 1000) \o <<".">> \o frac, 3)

\* the truth value Python gives an optional float
Truthy(o) == o # None /\ Val(o) # 0

maps_url_of(record) ==
    IF Truthy(record.latitude) /\ Truthy(record.longitude)
    THEN <<"h", "t", "t", "p", "s", ":", "/", "/", "m", "a", "p", "s", ".",
      "g", "o", "o", "g", "l", "e", ".", "c", "o", "m", "/", "m",
      "a", "p", "s", "?", "q", "=">>
         \o FormatCoord(Val(record.latitude)) \o <<",">>
         \o FormatCoord(Val(record.longitude)) \o <<"&", "z", "=", "1", "5">>
    ELSE Null

radius_of(record) ==
    IF record.accuracy_radius # None
    THEN IntStr(Val(record.accuracy_radius))
    ELSE Null

DetailBlock(record) ==
    << <<"M", "a", "p", "s", " ", "U", "R", "L", ":", " ", " ", " ">> \o maps_url_of(record),
       <<"R", "a", "d", "i", "u", "s", "(", "k", "m", ")", ":", " ">> \o radius_of(record),
       <<"C", "o", "u", "n", "t", "r", "y", ":", " ", " ", " ", " ">> \o country_full_of(record),
       <<"S", "t", "a", "t", "e", ":", " ", " ", " ", " ", " ", " ">> \o state_of(record),
       <<"C", "i", "t", "y", ":", " ", " ", " ", " ", " ", " ", " ">> \o city_of(record) >>

\* lines 150-156: the key of the group a record goes to
GroupKey(group_by, record, ip) ==
    IF group_by = "country" THEN country_full_of(record)
    ELSE IF group_by = "state/region"
         THEN state_of(record) \o country_iso_of(record)
    ELSE IF group_by = "city"
         THEN city_of(record) \o country_iso_of(record)
    ELSE ip

\* lines 150-173: what the record adds to its group
GroupLines(group_by, record, ip) ==
    IF group_by \in AttributeGroups THEN <<ip>> ELSE DetailBlock(record)

(***************************************************************************)
(* result_dict is a defaultdict of lists; Python dicts keep their keys in  *)
(* insertion order, so the dict is the sequence of its items <<key, list>>.*)
(***************************************************************************)
Keys(d) == {d[i][1] : i \in 1..Len(d)}

\* result_dict[key] = lines: a later contribution replaces the earlier ones
DictExtend_Assign(d, key, lines) ==
    IF key \in Keys(d)
    THEN [i \in 1..Len(d) |-> IF d[i][1] = key THEN <<key, lines>> ELSE d[i]]
    ELSE Append(d, <<key, lines>>)

\* result_dict[key].extend(lines), list() made on first access
DictExtend(d, key, lines) ==
    IF key \in Keys(d)
    THEN [i \in 1..Len(d) |->
            IF d[i][1] = key THEN <<key, d[i][2] \o lines>> ELSE d[i]]
    ELSE Append(d, <<key, lines>>)

(***************************************************************************)
(* main, lines 216-218: sorted(result_dict.items(), key=..., reverse=True) *)
(***************************************************************************)
\* key(a) < key(b) for the sort key of line 218
KeyLess(group_by, a, b) ==
    IF group_by \in AttributeGroups
    THEN Len(a[2]) < Len(b[2])
    ELSE StrLess(a[2][3], b[2][3])

\* x goes in front of the items whose key equals its own: not stable
RECURSIVE InsertDescending_Unstable(_, _, _)
InsertDescending_Unstable(group_by, sorted, x) ==
    IF sorted = <<>> THEN <<x>>
    ELSE IF ~KeyLess(group_by, x, Head(sorted))
         THEN <<x>> \o sorted
    ELSE <<Head(sorted)>> \o InsertDescending_Unstable(group_by, Tail(sorted), x)

\* x goes behind every item whose key is not smaller than its own
RECURSIVE InsertDescending(_, _, _)
InsertDescending(group_by, sorted, x) ==
    IF sorted = <<>> THEN <<x>>
    ELSE IF KeyLess(group_by, Head(sorted), x)
         THEN <<x>> \o sorted
    ELSE <<Head(sorted)>> \o InsertDescending(group_by, Tail(sorted), x)

\* a stable sort in descending key order: equal keys keep their order
RECURSIVE SortedReverse(_, _)
SortedReverse(group_by, items) ==
    IF items = <<>> THEN <<>>
    ELSE InsertDescending(group_by,
                          SortedReverse(group_by, SubSeq(items, 1, Len(items) - 1)),
                          items[Len(items)])

(***************************************************************************)
(* main, lines 213-230: the text of each print call                        *)
(***************************************************************************)
\* print("ERROR: ", e)
ErrorLine(e) == <<"E", "R", "R", "O", "R", ":", " ">> \o <<" ">> \o e

\* print('\n', key)
KeyLine(key) == <<"\n", " ">> \o key

\* print(" "*4, value)
ValueLine(value) == <<" ", " ", " ", " ", " ">> \o value

NoRecordsLine == <<"N", "o", " ", "r", "e", "c", "o", "r", "d", "s", " ", "f", "o",
      "u", "n", "d">>

NotFoundHeader == <<"\n", "I", "P", " ", "a", "d", "d", "r", "e", "s", "s", "e", "s",
      " ", "n", "o", "t", " ", "f", "o", "u", "n", "d", ":">>

RECURSIVE Flatten(_)
Flatten(ss) == IF ss = <<>> THEN <<>> ELSE Head(ss) \o Flatten(Tail(ss))

\* lines 220-223: a group's key line, then its value lines
RenderGroup(item) ==
    <<KeyLine(item[1])>> \o [j \in 1..Len(item[2]) |-> ValueLine(item[2][j])]

\* lines 216-225
RenderGroups(group_by, d) ==
    IF d # <<>>
    THEN LET sorted_dict == SortedReverse(group_by, d)
         IN  Flatten([i \in 1..Len(sorted_dict) |-> RenderGroup(sorted_dict[i])])
    ELSE <<NoRecordsLine>>

\* lines 227-230
RenderNotFound(show_not_found, unknown) ==
    IF show_not_found /\ Len(unknown) > 0
    THEN <<NotFoundHeader>> \o [j \in 1..Len(unknown) |-> ValueLine(unknown[j])]
    ELSE <<>>

(***************************************************************************)
(* main, lines 198-207: the cap on the matches of a file                   *)
(***************************************************************************)
\* a limit of 0 taken as a cap of 0 addresses
limit_of_ZeroCaps(n) == IF n < 0 THEN None ELSE Some(n)

\* lines 198-201
limit_of(n) == IF n < 1 THEN None ELSE Some(n)

\* list[:limit] for limit None or a positive int
Slice(list, limit) ==
    IF limit = None THEN list
    ELSE SubSeq(list, 1, IF Val(limit) < Len(list) THEN Val(limit) ELSE Len(list))

(***************************************************************************)
(* The initial state: the command line has been parsed (parse_args), and   *)
(* the file named by --file is missing, empty, not open to reading, not    *)
(* decodable as text, or a text with some IPv4-shaped matches.             *)
(***************************************************************************)
NoFile == [state |-> "none", matches |-> <<>>]

Files ==
    {[state |-> "missing", matches |-> <<>>],
     [state |-> "empty", matches |-> <<>>],
     [state |-> "unreadable", matches |-> <<>>],
     [state |-> "undecodable", matches |-> <<>>]}
    \cup {[state |-> "text", matches |-> m] : m \in MatchLists}

Limits == (-2)..MaxLimit

Args(ip, group, pattern, filter, limit, show) ==
    [ip |-> ip, group |-> group, search |-> pattern, filter |-> filter,
     limit |-> limit, show_not_found |-> show]

InitWith(groups, patterns, filters, limits) ==
    /\ pc = "compile"
    /\ \E group \in groups, pattern \in patterns, filter \in filters,
          show \in BOOLEAN :
          /\ pattern # None => PatternSyntax(Val(pattern))
          /\ \/ /\ \E ip \in IpChoices :
                      args = Args(Some(ip), group, pattern, filter, 0, show)
                /\ file = NoFile
             \/ /\ \E limit \in limits :
                      args = Args(None, group, pattern, filter, limit, show)
                /\ file \in Files
    /\ ip_list = <<>>
    /\ idx = 0
    /\ result_dict = <<>>
    /\ unknown_ips = <<>>
    /\ city_calls = <<>>
    /\ search_calls = {}
    /\ stdout = <<>>
    /\ stderr = <<>>
    /\ exit_code = None

\* every group key, search pattern and exclusion list, --limit left at 0
Init == InitWith(GroupChoices, SearchChoices, FilterChoices, {0})

\* every --limit, with the default group key
InitLimit ==
    InitWith({default_group},
             {None, Some(<<"(", "?", "i", ")", "(", "3", ".", ".", ".", "3", ")">>),
              Some(<<"(">>)},
             FilterChoices, Limits)

(***************************************************************************)
(* main, lines 183-189: the options are read and --search is compiled      *)
(***************************************************************************)
\* line 188: re.error is raised outside any try: the traceback goes to
\* stderr and the process ends with status 1
CompileFails ==
    /\ pc = "compile"
    /\ compile_raises(args.search)
    /\ stderr' = <<<<"r", "e", ".", "e", "r", "r", "o", "r">>>>
    /\ exit_code' = Some(1)
    /\ pc' = "done"
    /\ UNCHANGED <<args, file, ip_list, idx, result_dict, unknown_ips,
                   city_calls, search_calls, stdout>>

\* lines 183-189
CompileSearch ==
    /\ pc = "compile"
    /\ ~compile_raises(args.search)
    /\ pc' = "input"
    /\ UNCHANGED <<args, file, ip_list, idx, result_dict, unknown_ips,
                   city_calls, search_calls, stdout, stderr, exit_code>>

(***************************************************************************)
(* main, lines 191-207: input resolution                                   *)
(***************************************************************************)
\* lines 183 and 191: the truth value of single_ip, which is None without
\* --ip and is false for the empty string
HasSingleIp == args.ip # None /\ Val(args.ip) # <<>>

\* lines 191-192
SingleIp ==
    /\ pc = "input"
    /\ HasSingleIp
    /\ ip_list' = <<Val(args.ip)>>
    /\ pc' = "open"
    /\ UNCHANGED <<args, file, idx, result_dict, unknown_ips, city_calls,
                   search_calls, stdout, stderr, exit_code>>

\* lines 193-194: --ip '' takes the file branch with file = None, and
\* file.is_file() raises AttributeError outside any try: the traceback goes
\* to stderr and the process ends with status 1
NoFileCrash ==
    /\ pc = "input"
    /\ ~HasSingleIp
    /\ file.state = "none"
    /\ stderr' = <<<<"A", "t", "t", "r", "i", "b", "u", "t", "e", "E", "r", "r", "o", "r">>>>
    /\ exit_code' = Some(1)
    /\ pc' = "done"
    /\ UNCHANGED <<args, file, ip_list, idx, result_dict, unknown_ips,
                   city_calls, search_calls, stdout>>

\* lines 194-197: parser.error prints to stderr and exits with status 2
FileRejected ==
    /\ pc = "input"
    /\ ~HasSingleIp
    /\ file.state \in {"missing", "empty"}
    /\ stderr' = IF file.state = "missing"
                 THEN <<<<"f", "i", "l", "e", " ", "p", "a", "t", "h", " ", "i", "s", " ",
      "i", "n", "v", "a", "l", "i", "d", " ", "o", "r", " ", "n",
      "o", "t", " ", "f", "o", "u", "n", "d">>>>
                 ELSE <<<<"f", "i", "l", "e", " ", "i", "s", " ", "e", "m", "p", "t", "y">>>>
    /\ exit_code' = Some(2)
    /\ pc' = "done"
    /\ UNCHANGED <<args, file, ip_list, idx, result_dict, unknown_ips,
                   city_calls, search_calls, stdout>>

\* lines 203-204: file.open() raises PermissionError on a file that may not
\* be read and file.read_text() raises UnicodeDecodeError on bytes that are
\* not text, both outside any try: traceback on stderr, status 1
ReadFails ==
    /\ pc = "input"
    /\ ~HasSingleIp
    /\ file.state \in {"unreadable", "undecodable"}
    /\ stderr' = IF file.state = "unreadable"
                 THEN <<<<"P", "e", "r", "m", "i", "s", "s", "i", "o", "n",
                          "E", "r", "r", "o", "r">>>>
                 ELSE <<<<"U", "n", "i", "c", "o", "d", "e", "D", "e", "c",
                          "o", "d", "e", "E", "r", "r", "o", "r">>>>
    /\ exit_code' = Some(1)
    /\ pc' = "done"
    /\ UNCHANGED <<args, file, ip_list, idx, result_dict, unknown_ips,
                   city_calls, search_calls, stdout>>

\* lines 198-207
ReadFile ==
    /\ pc = "input"
    /\ ~HasSingleIp
    /\ file.state = "text"
    /\ ip_list' = Slice(file.matches, limit_of(args.limit))
    /\ pc' = "open"
    /\ UNCHANGED <<args, file, idx, result_dict, unknown_ips, city_calls,
                   search_calls, stdout, stderr, exit_code>>

(***************************************************************************)
(* main, lines 209-214: the database is opened once, before the loop       *)
(***************************************************************************)
\* geoip2.database.Reader(args.db) raises: lines 212-214
OpenFails ==
    /\ pc = "open"
    /\ \E e \in OpenErrors : stdout' = Append(stdout, ErrorLine(e))
    /\ exit_code' = Some(2)
    /\ pc' = "done"
    /\ UNCHANGED <<args, file, ip_list, idx, result_dict, unknown_ips,
                   city_calls, search_calls, stderr>>

\* lines 210-211 and 117-118: the reader is open, get_records starts
OpenDatabase ==
    /\ pc = "open"
    /\ pc' = "loop"
    /\ idx' = 1
    /\ result_dict' = <<>>
    /\ unknown_ips' = <<>>
    /\ UNCHANGED <<args, file, ip_list, city_calls, search_calls, stdout,
                   stderr, exit_code>>

(***************************************************************************)
(* get_records, lines 120-175: one iteration of the loop per step          *)
(***************************************************************************)
InLoop == pc = "loop" /\ idx <= Len(ip_list)

\* only the first address of the exclusion list is compared
IsFiltered_FirstOnly(ip) == args.filter # <<>> /\ args.filter[1] = ip

\* line 121
IsFiltered(ip) == \E k \in 1..Len(args.filter) : args.filter[k] = ip

\* read_record, lines 105-113: the record, or None
read_record(ip) == reader_city(ip).record

\* lines 121-122
SkipFiltered ==
    /\ InLoop
    /\ IsFiltered(ip_list[idx])
    /\ idx' = idx + 1
    /\ UNCHANGED <<pc, args, file, ip_list, result_dict, unknown_ips,
                   city_calls, search_calls, stdout, stderr, exit_code>>

\* read_record without ValueError in its except clause: the exception
\* leaves get_records and main reports it
NotFound_ValueErrorEscapes ==
    /\ InLoop
    /\ ~IsFiltered(ip_list[idx])
    /\ reader_city(ip_list[idx]).record = None
    /\ city_calls' = Append(city_calls, ip_list[idx])
    /\ IF reader_city(ip_list[idx]).raises = "ValueError"
       THEN /\ stdout' = Append(stdout, ErrorLine(<<"V", "a", "l", "u", "e", "E", "r", "r", "o", "r">>))
            /\ exit_code' = Some(2)
            /\ pc' = "done"
            /\ UNCHANGED <<idx, unknown_ips>>
       ELSE /\ unknown_ips' = Append(unknown_ips, ip_list[idx])
            /\ idx' = idx + 1
            /\ UNCHANGED <<pc, stdout, exit_code>>
    /\ UNCHANGED <<args, file, ip_list, result_dict, search_calls, stderr>>

\* lines 124-129 and 174-175: the lookup gives no record
NotFound ==
    /\ InLoop
    /\ ~IsFiltered(ip_list[idx])
    /\ read_record(ip_list[idx]) = None
    /\ city_calls' = Append(city_calls, ip_list[idx])
    /\ unknown_ips' = Append(unknown_ips, ip_list[idx])
    /\ idx' = idx + 1
    /\ UNCHANGED <<pc, args, file, ip_list, result_dict, search_calls,
                   stdout, stderr, exit_code>>

\* lines 110-111, 126-127 and 212-214: the lookup ends with an exception of
\* another class, which leaves get_records and the with block
LookupRaises ==
    /\ InLoop
    /\ ~IsFiltered(ip_list[idx])
    /\ city_calls' = Append(city_calls, ip_list[idx])
    /\ \E e \in OtherLookupErrors : stdout' = Append(stdout, ErrorLine(e))
    /\ exit_code' = Some(2)
    /\ pc' = "done"
    /\ UNCHANGED <<args, file, ip_list, idx, result_dict, unknown_ips,
                   search_calls, stderr>>

\* a rejected record falls through to the else branch of line 174
FoundRejected_ToUnknown ==
    /\ InLoop
    /\ ~IsFiltered(ip_list[idx])
    /\ read_record(ip_list[idx]) # None
    /\ ~add_record(args.search, Val(read_record(ip_list[idx])), ip_list[idx])
    /\ city_calls' = Append(city_calls, ip_list[idx])
    /\ search_calls' = search_calls \cup {ip_list[idx]}
    /\ unknown_ips' = Append(unknown_ips, ip_list[idx])
    /\ idx' = idx + 1
    /\ UNCHANGED <<pc, args, file, ip_list, result_dict, stdout, stderr,
                   exit_code>>

\* lines 129-148: a record that the search pattern rejects
FoundRejected ==
    /\ InLoop
    /\ ~IsFiltered(ip_list[idx])
    /\ read_record(ip_list[idx]) # None
    /\ ~add_record(args.search, Val(read_record(ip_list[idx])), ip_list[idx])
    /\ city_calls' = Append(city_calls, ip_list[idx])
    /\ search_calls' = search_calls \cup {ip_list[idx]}
    /\ idx' = idx + 1
    /\ UNCHANGED <<pc, args, file, ip_list, result_dict, unknown_ips, stdout,
                   stderr, exit_code>>

\* lines 129-173: a record that is added to its group
FoundAdded ==
    /\ InLoop
    /\ ~IsFiltered(ip_list[idx])
    /\ read_record(ip_list[idx]) # None
    /\ LET ip == ip_list[idx]
           record == Val(read_record(ip))
       IN  /\ add_record(args.search, record, ip)
           /\ result_dict' = DictExtend(result_dict,
                                        GroupKey(args.group, record, ip),
                                        GroupLines(args.group, record, ip))
    /\ city_calls' = Append(city_calls, ip_list[idx])
    /\ search_calls' = IF args.search # None
                       THEN search_calls \cup {ip_list[idx]}
                       ELSE search_calls
    /\ idx' = idx + 1
    /\ UNCHANGED <<pc, args, file, ip_list, unknown_ips, stdout, stderr,
                   exit_code>>

(***************************************************************************)
(* main, lines 216-232: get_records has returned; the report               *)
(***************************************************************************)
Report ==
    /\ pc = "loop"
    /\ idx > Len(ip_list)
    /\ stdout' = stdout \o RenderGroups(args.group, result_dict)
                        \o RenderNotFound(args.show_not_found, unknown_ips)
    /\ exit_code' = Some(0)
    /\ pc' = "done"
    /\ UNCHANGED <<args, file, ip_list, idx, result_dict, unknown_ips,
                   city_calls, search_calls, stderr>>

Next ==
    \/ CompileFails
    \/ CompileSearch
    \/ SingleIp
    \/ NoFileCrash
    \/ FileRejected
    \/ ReadFails
    \/ ReadFile
    \/ OpenFails
    \/ OpenDatabase
    \/ SkipFiltered
    \/ NotFound
    \/ LookupRaises
    \/ FoundRejected
    \/ FoundAdded
    \/ Report

Spec == Init /\ [][Next]_vars

SpecLimit == InitLimit /\ [][Next]_vars

(***************************************************************************)
(* Vocabulary of the properties.                                           *)
(***************************************************************************)
Range(s) == {s[k] : k \in 1..Len(s)}

\* ip is a member of the exclusion list given with --filter
Excluded(ip) == ip \in Range(args.filter)

\* the loop of get_records has passed position k of ip_list
Processed(k) == pc \in {"loop", "done"} /\ k < idx

\* get_records has returned (the report may or may not be printed yet)
Returned == pc \in {"loop", "done"} /\ idx = Len(ip_list) + 1

\* main has printed the report and returned 0
Reported == pc = "done" /\ exit_code = Some(0)

\* the lookup of ip gives a record
HasRecord(ip) == reader_city(ip).record # None

\* the lookup of ip fails with one of the two per-address exceptions
LookupFails(ip) == reader_city(ip).raises \in {"AddressNotFoundError", "ValueError"}

\* the pattern matches one of the four strings of a found address
PatternMatches(p, ip) ==
    LET r == Val(reader_city(ip).record)
        name == IF r.country_name = None THEN Unknown ELSE Val(r.country_name)
        composed == IF r.country_iso = None THEN name
                    ELSE name \o <<" ", "(">> \o Val(r.country_iso) \o <<")">>
        region == IF r.subdivision_name = None THEN Unknown
                  ELSE Val(r.subdivision_name)
        town == IF r.city_name = None THEN Unknown ELSE Val(r.city_name)
    IN  search(p, composed) \/ search(p, region) \/ search(p, town)
        \/ search(p, ip)

\* ip is found, not excluded and passes the search filter
Survives(ip) ==
    /\ ~Excluded(ip)
    /\ HasRecord(ip)
    /\ args.search # None => PatternMatches(Val(args.search), ip)

AttributeMode == args.group \in AttributeGroups

\* ip is aggregated into some entry of the result map
InResult(ip) ==
    \E i \in 1..Len(result_dict) :
        IF AttributeMode THEN ip \in Range(result_dict[i][2])
        ELSE result_dict[i][1] = ip

InUnknown(ip) == ip \in Range(unknown_ips)

\* the key the spec gives the group of a surviving address
ExpectedKey(ip) ==
    LET r == Val(reader_city(ip).record)
        suffix == IF r.country_iso = None THEN <<>>
                  ELSE <<" ", "(">> \o Val(r.country_iso) \o <<")">>
        selected == IF args.group = "country" THEN r.country_name
                    ELSE IF args.group = "state/region" THEN r.subdivision_name
                    ELSE r.city_name
    IN  IF AttributeMode
        THEN (IF selected = None THEN Unknown ELSE Val(selected)) \o suffix
        ELSE ip

\* the positions of ip_list up to n whose occurrence survives into group key
Contributors(key, n) ==
    {k \in 1..n : Survives(ip_list[k]) /\ ExpectedKey(ip_list[k]) = key}

\* the elements of ip_list at the positions of set S, in input order
RECURSIVE Pick(_, _)
Pick(S, n) ==
    IF n = 0 THEN <<>>
    ELSE IF n \in S THEN Append(Pick(S, n - 1), ip_list[n])
    ELSE Pick(S, n - 1)

RECURSIVE SumLen(_)
SumLen(d) == IF d = <<>> THEN 0 ELSE Len(Head(d)[2]) + SumLen(Tail(d))

(***************************************************************************)
(* Reading the report back from stdout.                                    *)
(***************************************************************************)
IsKeyLine(l) == Len(l) >= 2 /\ l[1] = "\n" /\ l[2] = " "

\* the last line of the group section
GroupsEnd ==
    IF \E p \in 1..Len(stdout) : stdout[p] = NotFoundHeader
    THEN (CHOOSE p \in 1..Len(stdout) : stdout[p] = NotFoundHeader) - 1
    ELSE Len(stdout)

KeyPositions == {p \in 1..GroupsEnd : IsKeyLine(stdout[p])}

\* the position of the n-th key line
KeyPos(n) ==
    CHOOSE p \in KeyPositions : Cardinality({q \in KeyPositions : q < p}) = n - 1

\* the last line of the group whose key line is at p
GroupEnd(p) ==
    IF \E q \in KeyPositions : q > p
    THEN (CHOOSE q \in KeyPositions :
              q > p /\ \A q2 \in KeyPositions : q2 > p => q <= q2) - 1
    ELSE GroupsEnd

Strip(l, n) == SubSeq(l, n + 1, Len(l))

\* the rendered groups, in print order: <<key, lines>>
Rendered ==
    [n \in 1..Cardinality(KeyPositions) |->
        LET p == KeyPos(n)
        IN  <<Strip(stdout[p], 2),
              [j \in 1..(GroupEnd(p) - p) |-> Strip(stdout[p + j], 5)]>>]

\* the rendered unresolved section: the lines behind its header
RenderedNotFound ==
    IF GroupsEnd = Len(stdout) THEN <<>>
    ELSE [j \in 1..(Len(stdout) - GroupsEnd - 1) |->
             Strip(stdout[GroupsEnd + 1 + j], 5)]

NotFoundPrinted == GroupsEnd < Len(stdout)

\* the non-excluded occurrences among the first n whose lookup failed
FailedPrefix(n) ==
    Pick({k \in 1..n : ~Excluded(ip_list[k]) /\ LookupFails(ip_list[k])}, n)

\* the occurrences among the first n that are not excluded
LookedUpPrefix(n) == Pick({k \in 1..n : ~Excluded(ip_list[k])}, n)

(***************************************************************************)
(* C1.  As stated: once get_records has returned, every input address is   *)
(* in exactly one bucket, the result map or the unresolved list.           *)
(***************************************************************************)
C1_ExactlyOneBucket ==
    Returned =>
        \A k \in 1..Len(ip_list) :
            InResult(ip_list[k]) # InUnknown(ip_list[k])

\* C1, amended: once get_records has returned, no input address is in both
\* buckets, and an input address is in neither bucket exactly when it is
\* excluded, or is found and rejected by the search pattern; every other
\* input address is in exactly one bucket.
C1_Buckets ==
    Returned =>
        \A k \in 1..Len(ip_list) :
            LET ip == ip_list[k]
                dropped == \/ Excluded(ip)
                           \/ /\ HasRecord(ip)
                              /\ args.search # None
                              /\ ~PatternMatches(Val(args.search), ip)
            IN  /\ ~(InResult(ip) /\ InUnknown(ip))
                /\ (~InResult(ip) /\ ~InUnknown(ip)) <=> dropped
                /\ InUnknown(ip) <=> (~Excluded(ip) /\ ~HasRecord(ip))

\* C1 witness: a returned run with an excluded address, an aggregated address
\* and an unresolved address
C1_Witness ==
    /\ Returned
    /\ \E k1, k2, k3 \in 1..Len(ip_list) :
          /\ Excluded(ip_list[k1])
          /\ InResult(ip_list[k2])
          /\ InUnknown(ip_list[k3])

(***************************************************************************)
(* C2.  An address of the exclusion list is never looked up, never met by  *)
(* the search pattern, never in a group, never in the unresolved list and  *)
(* never printed; with --ip X --filter X the report is the single line     *)
(* 'No records found'.                                                     *)
(***************************************************************************)
C2_ExcludedNeverAppears ==
    /\ \A ip \in Range(args.filter) :
          /\ ip \notin Range(city_calls)
          /\ ip \notin search_calls
          /\ \A i \in 1..Len(result_dict) :
                result_dict[i][1] # ip /\ ip \notin Range(result_dict[i][2])
          /\ ip \notin Range(unknown_ips)
          /\ \A p \in 1..Len(stdout) :
                stdout[p] # KeyLine(ip) /\ stdout[p] # ValueLine(ip)
    /\ (Reported /\ args.ip # None /\ Excluded(Val(args.ip)))
          => stdout = <<NoRecordsLine>>

\* C2 witness: a printed report, --show-missing given, whose input held an
\* excluded address that has a record and an excluded address that has none
C2_Witness ==
    /\ Reported
    /\ args.show_not_found
    /\ \E k1, k2 \in 1..Len(ip_list) :
          /\ Excluded(ip_list[k1]) /\ HasRecord(ip_list[k1])
          /\ Excluded(ip_list[k2]) /\ LookupFails(ip_list[k2])

(***************************************************************************)
(* C3.  A processed, non-excluded address that has a record is in the      *)
(* result map if and only if no search pattern is configured or the        *)
(* pattern matches the composed country string, the state/region name, the *)
(* city name or the address; the group key plays no part.                  *)
(***************************************************************************)
C3_SearchFilter ==
    \A k \in 1..Len(ip_list) :
        (Processed(k) /\ ~Excluded(ip_list[k]) /\ HasRecord(ip_list[k]))
            => (InResult(ip_list[k])
                    <=> (args.search = None
                            \/ PatternMatches(Val(args.search), ip_list[k])))

\* C3 witness: under a pattern, one address kept only because the pattern
\* matches the address string, and one address rejected
C3_Witness ==
    /\ Returned
    /\ args.search # None
    /\ \E k1, k2 \in 1..Len(ip_list) :
          /\ InResult(ip_list[k1])
          /\ search(Val(args.search), ip_list[k1])
          /\ ~search(Val(args.search), city_of(Val(read_record(ip_list[k1]))))
          /\ HasRecord(ip_list[k2])
          /\ ~Excluded(ip_list[k2])
          /\ ~InResult(ip_list[k2])

(***************************************************************************)
(* C4.  A lookup that fails with AddressNotFoundError or ValueError does   *)
(* not end the run: the unresolved list is, in input order, the            *)
(* non-excluded occurrences passed so far whose lookup failed; a run that  *)
(* ends with another exit code than 0 was ended before any lookup or by a  *)
(* lookup exception of another class; and the unresolved section is        *)
(* printed, with these occurrences in order, iff --show-missing is given   *)
(* and the list is not empty.                                              *)
(***************************************************************************)
C4_LookupFailureRecovered ==
    /\ (pc \in {"loop", "done"} /\ idx >= 1)
          => unknown_ips = FailedPrefix(idx - 1)
    /\ (pc = "done" /\ exit_code # Some(0))
          => \/ city_calls = <<>>
             \/ /\ stdout # <<>>
                /\ \E e \in OtherLookupErrors :
                      stdout[Len(stdout)] = ErrorLine(e)
    /\ Reported
          => /\ Returned
             /\ NotFoundPrinted
                   <=> (args.show_not_found
                          /\ FailedPrefix(Len(ip_list)) # <<>>)
             /\ RenderedNotFound =
                   (IF args.show_not_found THEN FailedPrefix(Len(ip_list))
                    ELSE <<>>)

\* C4 witness: a printed report behind two different failed lookups, with an
\* address that has a record looked up after the first failure
C4_Witness ==
    /\ Reported
    /\ args.show_not_found
    /\ Len(ip_list) = 3
    /\ LookupFails(ip_list[1]) /\ ~Excluded(ip_list[1])
    /\ InResult(ip_list[2])
    /\ LookupFails(ip_list[3]) /\ ~Excluded(ip_list[3])
    /\ ip_list[1] # ip_list[3]

\* the run ended with the one line that reports a failed database open
OpenFailed ==
    /\ pc = "done"
    /\ Len(stdout) = 1
    /\ \E e \in OpenErrors : stdout[1] = ErrorLine(e)

(***************************************************************************)
(* C5.  As stated: a run in which the database cannot be opened looks up   *)
(* nothing, prints the 'ERROR: ' line alone and ends with exit code 2, and *)
(* every other run ends with exit code 0.                                  *)
(***************************************************************************)
C5_OnlyOpenFailureExitsNonZero ==
    pc = "done" =>
        IF OpenFailed
        THEN exit_code = Some(2) /\ city_calls = <<>> /\ stderr = <<>>
        ELSE exit_code = Some(0)

(***************************************************************************)
(* C6.  For a file with M matches, ip_list is the first min(N, M) matches  *)
(* for a limit N >= 1 and all M matches for a limit N <= 0; the cap comes  *)
(* before the exclusion filter: the addresses looked up are the            *)
(* non-excluded ones among the capped sequence.                            *)
(***************************************************************************)
C6_LimitCap ==
    (pc \in {"open", "loop", "done"} /\ exit_code # Some(1)
        /\ args.ip = None /\ file.state = "text")
        => LET M == Len(file.matches)
               N == args.limit
               n == IF N >= 1 THEN (IF N < M THEN N ELSE M) ELSE M
           IN  /\ Len(ip_list) = n
               /\ \A k \in 1..n : ip_list[k] = file.matches[k]
               /\ Reported => city_calls = LookedUpPrefix(n)

\* C6 witness: a limit below the number of matches, and an excluded address
\* among the matches kept
C6_Witness ==
    /\ Reported
    /\ args.ip = None
    /\ args.limit = 2
    /\ Len(file.matches) = 3
    /\ Excluded(file.matches[1])
    /\ ~Excluded(file.matches[2])
    /\ ~Excluded(file.matches[3])

\* the position of the first occurrence that goes to group key
FirstInserted(key) ==
    CHOOSE k \in Contributors(key, Len(ip_list)) :
        \A k2 \in Contributors(key, Len(ip_list)) : k <= k2

(***************************************************************************)
(* C7.  In country, state/region and city mode the groups are printed in   *)
(* non-increasing order of size, groups of equal size in the order in      *)
(* which their keys were first inserted, and the addresses of a group in   *)
(* input order.                                                            *)
(***************************************************************************)
C7_GroupOrder ==
    (Reported /\ AttributeMode) =>
        /\ \A i, j \in 1..Len(Rendered) :
              i < j =>
                 /\ Len(Rendered[i][2]) >= Len(Rendered[j][2])
                 /\ Len(Rendered[i][2]) = Len(Rendered[j][2])
                       => FirstInserted(Rendered[i][1])
                             < FirstInserted(Rendered[j][1])
        /\ \A i \in 1..Len(Rendered) :
              Rendered[i][2] =
                  Pick(Contributors(Rendered[i][1], Len(ip_list)), Len(ip_list))

\* C7 witness: two printed groups, the larger one inserted after the smaller
\* one and holding two different addresses
C7_Witness ==
    /\ Reported
    /\ AttributeMode
    /\ Len(Rendered) = 2
    /\ Len(Rendered[1][2]) = 2
    /\ Len(Rendered[2][2]) = 1
    /\ Rendered[1][2][1] # Rendered[1][2][2]
    /\ result_dict[2][1] = Rendered[1][1]

\* the accuracy radius of the record of ip, or None
RadiusOf(ip) == Val(reader_city(ip).record).accuracy_radius

(***************************************************************************)
(* C8.  As stated: in ip_address mode the groups are printed in descending *)
(* order of the radius of their record.                                    *)
(***************************************************************************)
C8_DescendingRadius ==
    (Reported /\ ~AttributeMode) =>
        \A i, j \in 1..Len(Rendered) :
            (/\ i < j
             /\ RadiusOf(Rendered[i][1]) # None
             /\ RadiusOf(Rendered[j][1]) # None)
                => Val(RadiusOf(Rendered[i][1])) >= Val(RadiusOf(Rendered[j][1]))

(***************************************************************************)
(* C9.  Every surviving occurrence (found, not excluded, accepted by the   *)
(* search filter) adds one address, or one block of 5 lines, to the one    *)
(* group whose key is the selected name plus the country's ISO suffix, or  *)
(* the address itself; the lines of all groups number the surviving        *)
(* occurrences, or 5 times as many.                                        *)
(***************************************************************************)
C9_OneContributionEach ==
    (pc \in {"loop", "done"} /\ idx >= 1) =>
        LET n == idx - 1
            survivors == {k \in 1..n : Survives(ip_list[k])}
            per == IF AttributeMode THEN 1 ELSE 5
        IN  /\ SumLen(result_dict) = per * Cardinality(survivors)
            /\ Keys(result_dict) = {ExpectedKey(ip_list[k]) : k \in survivors}
            /\ \A i, j \in 1..Len(result_dict) :
                  i # j => result_dict[i][1] # result_dict[j][1]
            /\ \A i \in 1..Len(result_dict) :
                  LET key == result_dict[i][1]
                      c == Contributors(key, n)
                  IN  /\ Len(result_dict[i][2]) = per * Cardinality(c)
                      /\ AttributeMode => result_dict[i][2] = Pick(c, n)

\* C9 witness: the same address twice in the input and a third, different
\* address, all three surviving, in ip_address mode
C9_Witness ==
    /\ Returned
    /\ ~AttributeMode
    /\ Len(ip_list) = 3
    /\ ip_list[1] = ip_list[3]
    /\ ip_list[1] # ip_list[2]
    /\ \A k \in 1..3 : Survives(ip_list[k])
    /\ SumLen(result_dict) = 15

(***************************************************************************)
(* C10.  As stated: in ip_address mode the Maps URL line of a block is the *)
(* literal 'Null' if and only if the latitude or the longitude of the      *)
(* record is absent.                                                       *)
(***************************************************************************)
C10_NullIffCoordinateAbsent ==
    (pc \in {"loop", "done"} /\ ~AttributeMode) =>
        \A i \in 1..Len(result_dict) :
            LET r == Val(reader_city(result_dict[i][1]).record)
            IN  (result_dict[i][2][1] = <<"M", "a", "p", "s", " ", "U", "R", "L", ":", " ", " ", " ", "N",
      "u", "l", "l">>)
                    <=> (r.latitude = None \/ r.longitude = None)
====
